---- MODULE Spec2Model ----
(***************************************************************************)
(* Grammar front end of flat-py: the desugarer of flat/py/analyzer.py      *)
(* (analyze_lang, class Desugar) and the projector of flat/backend/lang.py *)
(* (project, collect_nonterminals), as one state machine: a parsed grammar *)
(* is normalized rule by rule, and the returned normal form is projected   *)
(* from a start symbol, then projected once more.                          *)
(***************************************************************************)
EXTENDS Integers, Sequences, FiniteSets, TLC

(***************************************************************************)
(* Bounds of the explored inputs.                                          *)
(***************************************************************************)
\* largest repetition count written in a{n}, a{m,n}, a{m,}
MaxTimes == 2
\* largest number of items written in one character class
MaxItems == 2
\* largest number of rules of an explored EBNF grammar
MaxRules == 2

(***************************************************************************)
(* Values.                                                                 *)
(***************************************************************************)
\* Python's None (NatRange.upper of a{m,}; a failed Context.lookup)
None == -1

\* a terminal symbol of a normal form: a plain str
T(s) == [nt |-> FALSE, name |-> s]

\* flat.backend.lang.NT
NT(name) == [nt |-> TRUE, name |-> name]

\* the characters of the explored alphabet, in code point order from 'a'
Alphabet == <<"a", "b", "c", "d">>

ord(c) == 96 + (CHOOSE i \in 1..Len(Alphabet) : Alphabet[i] = c)

chr(n) == Alphabet[n - 96]

\* Python's seq * k on lists
RECURSIVE Times(_, _)
Times(seq, k) == IF k <= 0 THEN <<>> ELSE seq \o Times(seq, k - 1)

\* flat.py.grammar: the expression nodes
Lit(value) == [tag |-> "Lit", value |-> value]
CharItem(c) == [kind |-> "char", c |-> c]
CharRange(lower, upper) == [kind |-> "range", lower |-> lower, upper |-> upper]
CharClass(mode, items) == [tag |-> "CharClass", mode |-> mode, items |-> items]
Ref(name) == [tag |-> "Ref", name |-> name]
Concat(elements) == [tag |-> "Concat", elements |-> elements]
Union(options) == [tag |-> "Union", options |-> options]
Star(element) == [tag |-> "Star", element |-> element]
Plus(element) == [tag |-> "Plus", element |-> element]
Optional(element) == [tag |-> "Optional", element |-> element]
Power(element, times) == [tag |-> "Power", element |-> element, times |-> times]
Loop(element, lower, upper) ==
    [tag |-> "Loop", element |-> element, lower |-> lower, upper |-> upper]
Rule(name, body) == [name |-> name, body |-> body]

\* every diagnostic left at the default level of Diagnostic.__init__
Level_default(kind) == "ERROR"

\* Diagnostic(file_path, pos, summary, level): RedefinedRule, UndefinedRule
\* and NoStartRule keep the default level ERROR, EmptyRange is WARN
Level(kind) == IF kind = "EmptyRange" THEN "WARN" ELSE "ERROR"

Diagnostic(kind, pos) == [kind |-> kind, level |-> Level(kind), pos |-> pos]

\* Issuer.issue / Context.issue on the Desugar record d
issue(d, kind, pos) ==
    [d EXCEPT !.diagnostics = Append(@, Diagnostic(kind, pos))]

\* Issuer.has_errors
has_errors(diags) == \E i \in 1..Len(diags) : diags[i].level = "ERROR"

\* rules.setdefault(key, value): an entry already stored is kept
Store_once(rules, key, value) ==
    [x \in DOMAIN rules \cup {key} |-> IF x \in DOMAIN rules THEN rules[x] ELSE value]

\* dict item assignment  rules[key] = value
Store(rules, key, value) ==
    [x \in DOMAIN rules \cup {key} |-> IF x = key THEN value ELSE rules[x]]

(***************************************************************************)
(* Projector: flat/backend/lang.py                                         *)
(***************************************************************************)
\* collect_nonterminals(body): the names of the NT symbols of a rule body
collect_nonterminals(body) ==
    UNION {{body[i][j].name : j \in {n \in 1..Len(body[i]) : body[i][n].nt}} :
           i \in 1..Len(body)}

\* the orders in which a for loop may iterate over a frozenset
Orders(S) ==
    {f \in [1..Cardinality(S) -> S] : \A x \in S : \E i \in DOMAIN f : f[i] = x}

\* project_step with a slip: only the first unseen nonterminal is queued
project_step_first_only(g, st, order) ==
    LET sym == Head(st.queue)
        rest == Tail(st.queue)
    IN  IF sym \in DOMAIN g /\ sym \notin st.reachable
        THEN LET reach == st.reachable \cup {sym}
                 new == SelectSeq(order, LAMBDA x : x \notin reach)
             IN  [queue |-> rest \o (IF Len(new) = 0 THEN <<>> ELSE <<Head(new)>>),
                  reachable |-> reach]
        ELSE [queue |-> rest, reachable |-> st.reachable]

\* one iteration of the while loop of project (lines 20-26); order is the
\* iteration order of the frozenset returned by collect_nonterminals
project_step(g, st, order) ==
    LET sym == Head(st.queue)
        rest == Tail(st.queue)
    IN  IF sym \in DOMAIN g /\ sym \notin st.reachable
        THEN LET reach == st.reachable \cup {sym}
                 new == SelectSeq(order, LAMBDA x : x \notin reach)
             IN  [queue |-> rest \o new, reachable |-> reach]
        ELSE [queue |-> rest, reachable |-> st.reachable]

\* one iteration order of a frozenset
RECURSIVE SetToSeq(_)
SetToSeq(S) ==
    IF S = {} THEN <<>>
    ELSE LET x == CHOOSE y \in S : TRUE IN <<x>> \o SetToSeq(S \ {x})

\* the while loop of project, run to its end
RECURSIVE project_loop(_, _)
project_loop(g, st) ==
    IF Len(st.queue) = 0 THEN st
    ELSE LET sym == Head(st.queue)
             order == IF sym \in DOMAIN g
                      THEN SetToSeq(collect_nonterminals(g[sym])) ELSE <<>>
         IN  project_loop(g, project_step(g, st, order))

\* the return falling back on the whole language when nothing was reached
project_result_fallback(g, reach) ==
    IF reach = {} THEN g ELSE [sym \in reach |-> g[sym]]

\* the dict comprehension returned by project (line 28)
project_result(g, reach) == [sym \in reach |-> g[sym]]

\* project(lang, start)
project(g, s) ==
    project_result(g, project_loop(g, [queue |-> <<s>>, reachable |-> {}]).reachable)

(***************************************************************************)
(* Desugarer: class Desugar of flat/py/analyzer.py.  A Desugar instance    *)
(* with its context is the record d: nonterminals, defs (the definitions   *)
(* Context.lookup sees), rules, fresh_count, diagnostics (the Issuer's     *)
(* list) and raised (an exception is propagating).  A visit returns the    *)
(* symbol sequence and the instance after it.  A node's source range is    *)
(* modelled by its path from the rule: child i of the node at pos is at    *)
(* Append(pos, i); the NatRange of a Loop is at Append(pos, 0).            *)
(***************************************************************************)
\* fresh names without the '@' that keeps them apart from identifiers
Fresh_bare(k) == ToString(k)

\* the name returned by Desugar._fresh when it moves the counter to k
Fresh(k) == "@" \o ToString(k)

\* Desugar._fresh: the instance after the call
fresh(d) == [d EXCEPT !.fresh_count = @ + 1]

\* Context.lookup(key): the definition of key, or no definition
NoDef == [kind |-> "None"]

lookup(ds, key) == IF key \in DOMAIN ds THEN ds[key] ELSE NoDef

\* the for loop storing the external rules under their own names
Splice_bare(rs, name, g) ==
    [x \in DOMAIN rs \cup DOMAIN g |-> IF x \in DOMAIN g THEN g[x] ELSE rs[x]]

\* the for loop of visit_Ref (lines 92-93): rules[f'{name}.{id}'] = g[id]
Splice(rs, name, g) ==
    LET keys == {name \o "." \o id : id \in DOMAIN g}
    IN  [x \in DOMAIN rs \cup keys |->
            IF x \in keys
            THEN g[CHOOSE id \in DOMAIN g : x = name \o "." \o id]
            ELSE rs[x]]

\* expand with a slip: an empty range ends the loop over the items
RECURSIVE expand_stops(_, _, _, _)
expand_stops(items, pos, i, acc) ==
    IF i > Len(items) THEN acc
    ELSE LET item == items[i]
         IN  IF item.kind = "char"
             THEN expand_stops(items, pos, i + 1, [acc EXCEPT !.chars = Append(@, item.c)])
             ELSE IF ord(item.lower) <= ord(item.upper)
             THEN expand_stops(items, pos, i + 1,
                    [acc EXCEPT !.chars = @ \o
                        [n \in 1..(ord(item.upper) - ord(item.lower) + 1) |->
                            chr(ord(item.lower) + n - 1)]])
             ELSE [acc EXCEPT !.d = issue(@, "EmptyRange", Append(pos, i))]

\* the for loop of visit_CharClass (lines 66-75); acc = [chars, d]
RECURSIVE expand(_, _, _, _)
expand(items, pos, i, acc) ==
    IF i > Len(items) THEN acc
    ELSE LET item == items[i]
         IN  expand(items, pos, i + 1,
                IF item.kind = "char"
                THEN [acc EXCEPT !.chars = Append(@, item.c)]
                ELSE IF ord(item.lower) <= ord(item.upper)
                     THEN [acc EXCEPT !.chars = @ \o
                            [n \in 1..(ord(item.upper) - ord(item.lower) + 1) |->
                                chr(ord(item.lower) + n - 1)]]
                     ELSE [acc EXCEPT !.d = issue(@, "EmptyRange", Append(pos, i))])

\* Desugar.visit_CharClass
visit_CharClass(node, pos, d) ==
    IF node.mode # "inclusive"
    THEN [seq |-> <<>>, d |-> [d EXCEPT !.raised = TRUE]]
    ELSE LET r == expand(node.items, pos, 1, [chars |-> <<>>, d |-> d])
         IN  IF Len(r.chars) = 1
             THEN [seq |-> <<T(r.chars[1])>>, d |-> r.d]
             ELSE LET d1 == fresh(r.d)
                      fresh_id == Fresh(d1.fresh_count)
                  IN  [seq |-> <<NT(fresh_id)>>,
                       d |-> [d1 EXCEPT !.rules = Store(@, fresh_id,
                                [i \in 1..Len(r.chars) |-> <<T(r.chars[i])>>])]]

\* Desugar.visit_Lit
visit_Lit(node, pos, d) == [seq |-> <<T(node.value)>>, d |-> d]

\* visit_Ref consulting the context before the rules of the grammar
visit_Ref_context_first(node, pos, d) ==
    LET def == lookup(d.defs, node.name)
    IN  IF def.kind = "LangType"
        THEN [seq |-> <<NT(node.name \o ".start")>>,
              d |-> IF "start" \in DOMAIN def.lang
                    THEN [d EXCEPT !.rules =
                            Splice(@, node.name, project(def.lang, "start"))]
                    ELSE issue(d, "NoStartRule", pos)]
        ELSE IF node.name \in d.nonterminals
        THEN [seq |-> <<NT(node.name)>>, d |-> d]
        ELSE [seq |-> <<NT(node.name)>>, d |-> issue(d, "UndefinedRule", pos)]

\* Desugar.visit_Ref
visit_Ref(node, pos, d) ==
    IF node.name \in d.nonterminals
    THEN [seq |-> <<NT(node.name)>>, d |-> d]
    ELSE LET def == lookup(d.defs, node.name)
         IN  IF def.kind = "LangType"
             THEN [seq |-> <<NT(node.name \o ".start")>>,
                   d |-> IF "start" \in DOMAIN def.lang
                         THEN [d EXCEPT !.rules =
                                 Splice(@, node.name, project(def.lang, "start"))]
                         ELSE issue(d, "NoStartRule", pos)]
             ELSE [seq |-> <<NT(node.name)>>, d |-> issue(d, "UndefinedRule", pos)]

RECURSIVE visit(_, _, _)
RECURSIVE visit_each(_, _, _, _)
RECURSIVE visit_rule(_, _, _, _)

\* [self.visit(e) for e in es]; acc = [seqs, d]
visit_each(es, pos, i, acc) ==
    IF i > Len(es) \/ acc.d.raised THEN acc
    ELSE LET r == visit(es[i], Append(pos, i), acc.d)
         IN  visit_each(es, pos, i + 1,
                        [seqs |-> Append(acc.seqs, r.seq), d |-> r.d])

\* Python's flattening comprehension [s for seq in seqs for s in seq]
RECURSIVE Flatten(_)
Flatten(seqs) == IF Len(seqs) = 0 THEN <<>> ELSE Head(seqs) \o Flatten(Tail(seqs))

\* visit_rule storing the options of a Union one after the other in a single
\* alternative
visit_rule_joined(name, body, pos, d) ==
    IF body.tag = "Union"
    THEN LET r == visit_each(body.options, pos, 1, [seqs |-> <<>>, d |-> d])
         IN  IF r.d.raised THEN r.d
             ELSE [r.d EXCEPT !.rules = Store(@, name, <<Flatten(r.seqs)>>)]
    ELSE LET r == visit(body, pos, d)
         IN  IF r.d.raised THEN r.d
             ELSE [r.d EXCEPT !.rules = Store(@, name, <<r.seq>>)]

\* Desugar.visit_rule: the instance after the call
visit_rule(name, body, pos, d) ==
    IF body.tag = "Union"
    THEN LET r == visit_each(body.options, pos, 1, [seqs |-> <<>>, d |-> d])
         IN  IF r.d.raised THEN r.d
             ELSE [r.d EXCEPT !.rules = Store(@, name, r.seqs)]
    ELSE LET r == visit(body, pos, d)
         IN  IF r.d.raised THEN r.d
             ELSE [r.d EXCEPT !.rules = Store(@, name, <<r.seq>>)]

\* Desugar.visit_Concat
visit_Concat(node, pos, d) ==
    LET r == visit_each(node.elements, pos, 1, [seqs |-> <<>>, d |-> d])
    IN  [seq |-> Flatten(r.seqs), d |-> r.d]

\* Desugar.visit_Union
visit_Union(node, pos, d) ==
    LET d1 == fresh(d)
        fresh_id == Fresh(d1.fresh_count)
    IN  [seq |-> <<NT(fresh_id)>>, d |-> visit_rule(fresh_id, node, pos, d1)]

\* visit_Star with a slip: the first alternative is the element, not epsilon
visit_Star_no_epsilon(node, pos, d) ==
    LET d1 == fresh(d)
        fresh_id == Fresh(d1.fresh_count)
        r == visit(node.element, Append(pos, 1), d1)
    IN  IF r.d.raised THEN r
        ELSE [seq |-> <<NT(fresh_id)>>,
              d |-> [r.d EXCEPT !.rules =
                        Store(@, fresh_id, <<r.seq, r.seq \o <<NT(fresh_id)>>>>)]]

\* Desugar.visit_Star
visit_Star(node, pos, d) ==
    LET d1 == fresh(d)
        fresh_id == Fresh(d1.fresh_count)
        r == visit(node.element, Append(pos, 1), d1)
    IN  IF r.d.raised THEN r
        ELSE [seq |-> <<NT(fresh_id)>>,
              d |-> [r.d EXCEPT !.rules =
                        Store(@, fresh_id, <<<<>>, r.seq \o <<NT(fresh_id)>>>>)]]

\* visit_Plus with a slip: the element is also put in front of the result
visit_Plus_prefixed(node, pos, d) ==
    LET d1 == fresh(d)
        fresh_id == Fresh(d1.fresh_count)
        r == visit(node.element, Append(pos, 1), d1)
    IN  IF r.d.raised THEN r
        ELSE [seq |-> r.seq \o <<NT(fresh_id)>>,
              d |-> [r.d EXCEPT !.rules =
                        Store(@, fresh_id, <<r.seq, r.seq \o <<NT(fresh_id)>>>>)]]

\* Desugar.visit_Plus
visit_Plus(node, pos, d) ==
    LET d1 == fresh(d)
        fresh_id == Fresh(d1.fresh_count)
        r == visit(node.element, Append(pos, 1), d1)
    IN  IF r.d.raised THEN r
        ELSE [seq |-> <<NT(fresh_id)>>,
              d |-> [r.d EXCEPT !.rules =
                        Store(@, fresh_id, <<r.seq, r.seq \o <<NT(fresh_id)>>>>)]]

\* Desugar.visit_Optional
visit_Optional(node, pos, d) ==
    LET d1 == fresh(d)
        fresh_id == Fresh(d1.fresh_count)
        r == visit(node.element, Append(pos, 1), d1)
    IN  IF r.d.raised THEN r
        ELSE [seq |-> <<NT(fresh_id)>>,
              d |-> [r.d EXCEPT !.rules = Store(@, fresh_id, <<<<>>, r.seq>>)]]

\* visit_Power reducing the element once for every repetition instead of
\* repeating the one reduction
visit_Power_revisit(node, pos, d) ==
    LET r == visit_each([k \in 1..node.times |-> node.element], pos, 1,
                       [seqs |-> <<>>, d |-> d])
    IN  IF r.d.raised THEN [seq |-> <<>>, d |-> r.d]
        ELSE [seq |-> Flatten(r.seqs), d |-> r.d]

\* Desugar.visit_Power
visit_Power(node, pos, d) ==
    LET r == visit(node.element, Append(pos, 1), d)
    IN  IF r.d.raised THEN r
        ELSE [seq |-> Times(r.seq, node.times), d |-> r.d]

\* truth value of  times.upper  in  `if times.upper:`  (None and 0 are falsy)
Truthy(upper) == upper # None /\ upper # 0

\* Desugar.visit_Loop
visit_Loop(node, pos, d) ==
    LET r == visit(node.element, Append(pos, 1), d)
        d1 == fresh(r.d)
        fresh_id == Fresh(d1.fresh_count)
    IN  IF r.d.raised THEN r
        ELSE IF Truthy(node.upper)
        THEN IF node.lower <= node.upper
             THEN [seq |-> Times(r.seq, node.lower) \o <<NT(fresh_id)>>,
                   d |-> [d1 EXCEPT !.rules = Store(@, fresh_id,
                            [k \in 1..(node.upper - node.lower + 1) |->
                                Times(r.seq, k - 1)])]]
             ELSE [seq |-> <<>>, d |-> issue(d1, "EmptyRange", Append(pos, 0))]
        ELSE [seq |-> Times(r.seq, node.lower) \o <<NT(fresh_id)>>,
              d |-> [d1 EXCEPT !.rules =
                        Store(@, fresh_id, <<<<>>, r.seq \o <<NT(fresh_id)>>>>)]]

\* ExprVisitor.visit: dispatch on the node's class
visit(node, pos, d) ==
    IF d.raised THEN [seq |-> <<>>, d |-> d]
    ELSE CASE node.tag = "Lit" -> visit_Lit(node, pos, d)
           [] node.tag = "CharClass" -> visit_CharClass(node, pos, d)
           [] node.tag = "Ref" -> visit_Ref(node, pos, d)
           [] node.tag = "Concat" -> visit_Concat(node, pos, d)
           [] node.tag = "Union" -> visit_Union(node, pos, d)
           [] node.tag = "Star" -> visit_Star(node, pos, d)
           [] node.tag = "Plus" -> visit_Plus(node, pos, d)
           [] node.tag = "Optional" -> visit_Optional(node, pos, d)
           [] node.tag = "Power" -> visit_Power(node, pos, d)
           [] node.tag = "Loop" -> visit_Loop(node, pos, d)

(***************************************************************************)
(* analyze_lang (flat/py/analyzer.py lines 15-38) after a successful parse *)
(***************************************************************************)
\* an empty dict
EmptyDict == [x \in {} |-> <<>>]

\* Desugar.__init__ on a context whose issuer already holds diags
NewDesugar(nts, ds, diags) ==
    [nonterminals |-> nts, defs |-> ds, rules |-> EmptyDict, fresh_count |-> 0,
     diagnostics |-> diags, raised |-> FALSE]

\* the first loop reporting every definition of a name defined more than
\* once, the first definition included
declare_every(rs, i, acc) ==
    LET dup(k) == \E m \in 1..Len(rs) : m # k /\ rs[m].name = rs[k].name
        ks == SelectSeq([k \in 1..Len(rs) |-> k], LAMBDA k : k >= i /\ dup(k))
    IN  [nonterminals |-> acc.nonterminals \cup {rs[k].name : k \in i..Len(rs)},
         diagnostics |-> acc.diagnostics \o
            [k \in 1..Len(ks) |-> Diagnostic("RedefinedRule", <<ks[k], 0>>)]]

\* the first loop of analyze_lang (lines 27-32); acc = [nonterminals, diagnostics]
RECURSIVE declare(_, _, _)
declare(rs, i, acc) ==
    IF i > Len(rs) THEN acc
    ELSE declare(rs, i + 1,
            IF rs[i].name \notin acc.nonterminals
            THEN [acc EXCEPT !.nonterminals = @ \cup {rs[i].name}]
            ELSE [acc EXCEPT !.diagnostics =
                    Append(@, Diagnostic("RedefinedRule", <<i, 0>>))])

\* the second loop of analyze_lang (lines 35-36), from rule i on
RECURSIVE desugar_rules(_, _, _)
desugar_rules(rs, i, d) ==
    IF i > Len(rs) \/ d.raised THEN d
    ELSE desugar_rules(rs, i + 1, visit_rule(rs[i].name, rs[i].body, <<i>>, d))

\* analyze_lang on the parsed rules rs in a context with definitions ds and an
\* empty issuer: the Desugar instance at the return
analyze_lang(rs, ds) ==
    LET acc == declare(rs, 1, [nonterminals |-> {}, diagnostics |-> <<>>])
    IN  desugar_rules(rs, 1, NewDesugar(acc.nonterminals, ds, acc.diagnostics))

(***************************************************************************)
(* Explored inputs: what the parser returns and what the context defines.  *)
(***************************************************************************)
\* the sequences of 1..n elements of S
SeqsUpTo(S, n) == UNION {[1..k -> S] : k \in 1..n}

\* a previously analyzed grammar with a start rule, inner references, a
\* synthesized rule and a rule unreachable from start
ExternalG ==
    analyze_lang(<<Rule("start", Concat(<<Lit("b"), Ref("A")>>)),
                   Rule("A", Star(Lit("c"))),
                   Rule("U", Lit("d"))>>, EmptyDict).rules

\* a previously analyzed grammar without a start rule
ExternalH == analyze_lang(<<Rule("A", Lit("a"))>>, EmptyDict).rules

\* TypeDef(LangType(g))
LangDef(g) == [kind |-> "LangType", lang |-> g]

\* the global scope of the context: two language types and a variable
Defs ==
    [x \in {"G", "H", "V"} |->
        CASE x = "G" -> LangDef(ExternalG)
          [] x = "H" -> LangDef(ExternalH)
          [] x = "V" -> [kind |-> "VarDef"]]

\* items of a character class
ItemSet == {CharItem("a"), CharItem("b"), CharRange("a", "c"), CharRange("d", "b")}

Classes ==
    {CharClass("inclusive", its) : its \in SeqsUpTo(ItemSet, MaxItems)}
        \cup {CharClass("exclusive", <<CharItem("a")>>)}

\* the postfix operators applied to e
Postfix(e) ==
    {Star(e), Plus(e), Optional(e)}
        \cup {Power(e, n) : n \in 0..MaxTimes}
        \cup {Loop(e, m, u) : m \in 0..MaxTimes, u \in {None} \cup 0..MaxTimes}

\* operands of the postfix operators in the regex syntax
RegexElems ==
    {Lit("a"),
     CharClass("inclusive", <<CharItem("a"), CharItem("b")>>),
     CharClass("inclusive", <<CharRange("d", "b")>>),
     CharClass("exclusive", <<CharItem("a")>>),
     Union(<<Lit("a"), Lit("b")>>)}

RegexBodies ==
    {Lit("a")} \cup Classes
        \cup UNION {Postfix(e) : e \in RegexElems}
        \cup {Concat(<<Lit("a"), p>>) : p \in Postfix(Lit("b"))}
        \cup {Union(<<Lit("a"), Lit("b"), Lit("c")>>),
              Concat(<<Lit("c"), Union(<<Lit("a"), Lit("b")>>)>>)}

\* what RegexParser.grammar returns: one rule named start
RegexGrammars == {<<Rule("start", b)>> : b \in RegexBodies}

\* rule names and rule bodies of the explored EBNF grammars
RuleNames == {"S", "A", "G"}

RefNames == {"S", "A", "G", "H", "X", "V"}

EbnfBodies ==
    {Lit("a"),
     Ref("A"),
     Ref("X"),
     Ref("H"),
     Union(<<Concat(<<Lit("a"), Ref("S")>>), Ref("G")>>),
     Star(Union(<<Lit("b"), Ref("A")>>)),
     Plus(Ref("X"))}

EbnfGrammars ==
    SeqsUpTo({Rule(n, b) : n \in RuleNames, b \in EbnfBodies}, MaxRules)
        \cup {<<Rule("S", p)>> : p \in UNION {Postfix(Ref(n)) : n \in RefNames}}

\* EBNF grammars whose rule is named by digits alone, which the identifier
\* pattern [A-Za-z0-9_-]+ of EBNFParser.symbol admits
NumberedGrammars ==
    {<<Rule("1", b)>> : b \in {Star(Ref("1")), Plus(Lit("a")),
                               Star(Union(<<Lit("b"), Ref("G")>>))}}

Grammars == RegexGrammars \cup EbnfGrammars \cup NumberedGrammars

(***************************************************************************)
(* Parser: flat/py/parser.py.  A source is a sequence of characters and an *)
(* offset counts from 0 as in the code; a decoded character is modelled by *)
(* its code point.                                                         *)
(***************************************************************************)
\* source[offset]
At(source, offset) == source[offset + 1]

\* the special characters RegexParser.atomic passes to char
RegexSpecial == {".", "^", "$", "*", "+", "?", "{", "}", "[", "]", "(", ")", "|"}

\* string.octdigits and string.hexdigits
octdigits == {"0", "1", "2", "3", "4", "5", "6", "7"}

LowerDigits == <<"0", "1", "2", "3", "4", "5", "6", "7", "8", "9",
                 "a", "b", "c", "d", "e", "f">>

UpperDigits == <<"0", "1", "2", "3", "4", "5", "6", "7", "8", "9",
                 "A", "B", "C", "D", "E", "F">>

hexdigits == {LowerDigits[i] : i \in 1..16} \cup {UpperDigits[i] : i \in 1..16}

\* the value of the digit c
digit(c) == (CHOOSE i \in 1..16 : LowerDigits[i] = c \/ UpperDigits[i] = c) - 1

\* the largest argument chr accepts, 0x10FFFF
MaxCodePoint == 17 * 65536 - 1

\* int(s, base), with every value above MaxCodePoint merged into
\* MaxCodePoint + 1: chr raises on all of them alike
RECURSIVE int(_, _)
int(s, base) ==
    IF Len(s) = 0 THEN 0
    ELSE LET v == int(SubSeq(s, 1, Len(s) - 1), base) * base + digit(s[Len(s)])
         IN  IF v > MaxCodePoint THEN MaxCodePoint + 1 ELSE v

\* the code points of the characters the explored sources are written in
CodePoints ==
    ("\\" :> 92) @@ ("*" :> 42) @@ ("0" :> 48) @@ ("1" :> 49) @@ ("7" :> 55) @@
    ("8" :> 56) @@ ("F" :> 70) @@ ("U" :> 85) @@ ("g" :> 103) @@ ("n" :> 110) @@
    ("u" :> 117) @@ ("x" :> 120) @@ ("z" :> 122)

\* ESCAPE_CHARS, on the characters of the explored sources
ESCAPE_CHARS == ("\\" :> 92) @@ ("n" :> 10)

\* parsy's Result.success and Result.failure, and an exception that is not a
\* ParseError leaving the parser
Success(index, value) == [status |-> "success", index |-> index, value |-> value]

Failure(index, expected) == [status |-> "failure", index |-> index, expected |-> expected]

Raise(exception) == [status |-> "raise", exception |-> exception]

\* Result.success(index, chr(n)): chr raises ValueError above MaxCodePoint
\* (OverflowError above the range of a C int)
SuccessChr(index, n) ==
    IF n > MaxCodePoint THEN Raise("ValueError") ELSE Success(index, n)

\* the branches of char_parser for \x, \u and \U (lines 103-119), n the
\* number of hex digits
hex_escape(source, offset, n) ==
    IF /\ offset + n + 1 < Len(source)
       /\ \A i \in 2..(n + 1) : At(source, offset + i) \in hexdigits
    THEN SuccessChr(offset + 2 + n, int(SubSeq(source, offset + 3, offset + 2 + n), 16))
    ELSE Failure(offset + 2, "invalid Unicode escape sequence (expected "
                                \o ToString(n) \o " hex digits)")

\* the octal branch taking every octal digit that follows, a fourth included
octal_escape_greedy(source, offset) ==
    LET run[i \in 0..Len(source)] ==
            IF i < Len(source) /\ At(source, i) \in octdigits
            THEN IF i + 1 <= Len(source) THEN 1 + run[i + 1] ELSE 1
            ELSE 0
        n == run[offset + 1]
    IN  SuccessChr(offset + 1 + n, int(SubSeq(source, offset + 2, offset + 1 + n), 8))

\* the octal branch of char_parser (lines 95-101)
octal_escape(source, offset) ==
    IF offset + 2 < Len(source) /\ At(source, offset + 2) \in octdigits
    THEN IF offset + 3 < Len(source) /\ At(source, offset + 3) \in octdigits
         THEN SuccessChr(offset + 4, int(SubSeq(source, offset + 2, offset + 4), 8))
         ELSE SuccessChr(offset + 3, int(SubSeq(source, offset + 2, offset + 3), 8))
    ELSE SuccessChr(offset + 2, int(SubSeq(source, offset + 2, offset + 2), 8))

\* char(special)'s char_parser(source, offset)
char_parser(special, source, offset) ==
    IF /\ offset < Len(source)
       /\ At(source, offset) # "\\"
       /\ At(source, offset) \notin special
    THEN Success(offset + 1, CodePoints[At(source, offset)])
    ELSE IF offset + 1 < Len(source) /\ At(source, offset) = "\\"
    THEN LET c == At(source, offset + 1)
         IN  CASE c \in DOMAIN ESCAPE_CHARS -> Success(offset + 2, ESCAPE_CHARS[c])
               [] c \notin DOMAIN ESCAPE_CHARS /\ c \in special ->
                    Success(offset + 2, CodePoints[c])
               [] c \in octdigits -> octal_escape(source, offset)
               [] c = "x" -> hex_escape(source, offset, 2)
               [] c = "u" -> hex_escape(source, offset, 4)
               [] c = "U" -> hex_escape(source, offset, 8)
               [] OTHER -> Failure(offset, "invalid escape sequence")
    ELSE Failure(offset, "invalid character")

\* InvalidSyntax(msg, loc), the location kept as the offset err.index
InvalidSyntax(msg, index) == [msg |-> msg, index |-> index]

(***************************************************************************)
(* Explored sources: one escape sequence, complete or not, followed by up  *)
(* to MaxTail further characters.                                          *)
(***************************************************************************)
MaxTail == 1

\* the sequences of at most n elements of S
RunsUpTo(S, n) == {<<>>} \cup SeqsUpTo(S, n)

\* what follows the backslash
EscapeBodies ==
    {<<"x">> \o ds : ds \in RunsUpTo({"0", "1", "F", "g"}, 2 + 1)}
        \cup {<<"u">> \o ds : ds \in RunsUpTo({"0", "F"}, 4 + 1)}
        \cup {<<"U">> \o ds : ds \in RunsUpTo({"0", "F"}, 8 + 1) \cup
                {<<"0", "0", "1", "0", "F", "F", "F", "F">>,
                 <<"0", "0", "1", "1", "0", "0", "0", "0">>}}
        \cup SeqsUpTo({"0", "7", "8"}, 3 + 1)
        \cup {<<"n">>, <<"\\">>, <<"z">>, <<"*">>, <<>>}

Sources ==
    {<<"\\">> \o b \o t : b \in EscapeBodies, t \in RunsUpTo({"F", "g"}, MaxTail)}
        \cup {<<>>, <<"g">>}

(***************************************************************************)
(* The state machine.                                                      *)
(***************************************************************************)
VARIABLES
    grammar,    \* the rules returned by parse
    pc,         \* where the caller is
    idx,        \* the rule the second loop of analyze_lang is at
    desugar,    \* the Desugar instance with its context
    before,     \* history: the instance before the latest visit_rule
    lang,       \* project's argument lang
    start,      \* project's argument start
    queue,      \* project's local queue
    reachable,  \* project's local reachable
    result,     \* the value project returned
    first,      \* history: the value the first projection returned
    pass,       \* history: 1 in the first projection, 2 in the second
    source,     \* parse's argument source
    offset,     \* the offset the regex parser is at
    lits,       \* the characters of the Lit nodes parsed so far
    outcome,    \* where parse is, and what it returned
    value,      \* the value parse returned
    called,     \* history: the offset of the latest char_parser call
    res,        \* history: the Result of the latest char_parser call
    inst,       \* two analyze_lang invocations, each with its own Desugar
    choices,    \* the choice list a ChoiceProducer was built over
    values,     \* ChoiceProducer.values
    index,      \* ChoiceProducer.index
    out         \* history: the values produce has returned, in order

vars == <<grammar, pc, idx, desugar, before, lang, start, queue, reachable,
          result, first, pass, source, offset, lits, outcome, value, called, res,
          inst, choices, values, index, out>>

producervars == <<choices, values, index, out>>

parsevars == <<source, offset, lits, outcome, value, called, res>>


projvars == <<lang, start, queue, reachable, result, first, pass>>

langvars == <<grammar, pc, idx, desugar, before, projvars>>

Init ==
    /\ grammar \in Grammars
    /\ pc = "parsed"
    /\ idx = 0
    /\ desugar = NewDesugar({}, Defs, <<>>)
    /\ before = NewDesugar({}, Defs, <<>>)
    /\ lang = EmptyDict
    /\ start = ""
    /\ queue = <<>>
    /\ reachable = {}
    /\ result = EmptyDict
    /\ first = EmptyDict
    /\ pass = 0
    /\ source = <<>>
    /\ offset = 0
    /\ lits = <<>>
    /\ outcome = "idle"
    /\ value = <<>>
    /\ called = None
    /\ res = Failure(0, "")
    /\ inst = <<>>
    /\ choices = <<>>
    /\ values = <<>>
    /\ index = 0
    /\ out = <<>>

\* analyze_lang lines 26-34: declare the rule names, build the Desugar
Declare ==
    /\ pc = "parsed"
    /\ LET acc == declare(grammar, 1, [nonterminals |-> {},
                                       diagnostics |-> desugar.diagnostics])
       IN  /\ desugar' = NewDesugar(acc.nonterminals, desugar.defs, acc.diagnostics)
           /\ before' = desugar'
    /\ idx' = 1
    /\ pc' = "desugar"
    /\ UNCHANGED <<grammar, projvars>>
    /\ UNCHANGED <<parsevars, inst, producervars>>

\* analyze_lang lines 35-36: one desugar.visit_rule call; an exception it
\* raises leaves analyze_lang
VisitRule ==
    /\ pc = "desugar"
    /\ idx <= Len(grammar)
    /\ before' = desugar
    /\ desugar' = visit_rule(grammar[idx].name, grammar[idx].body, <<idx>>, desugar)
    /\ idx' = idx + 1
    /\ pc' = IF desugar'.raised THEN "raised" ELSE "desugar"
    /\ UNCHANGED <<grammar, projvars>>
    /\ UNCHANGED <<parsevars, inst, producervars>>

\* analyze_lang line 38: return LangType(desugar.rules)
Return ==
    /\ pc = "desugar"
    /\ idx > Len(grammar)
    /\ lang' = desugar.rules
    /\ pc' = "returned"
    /\ UNCHANGED <<grammar, idx, desugar, before, start, queue, reachable,
                   result, first, pass>>
    /\ UNCHANGED <<parsevars, inst, producervars>>

\* the start symbols the caller projects from
Starts(g) == DOMAIN g \cup {"X"}

\* project lines 18-19, called on the returned language
ProjectCall ==
    /\ pc = "returned"
    /\ \E s \in Starts(lang) :
        /\ start' = s
        /\ queue' = <<s>>
    /\ reachable' = {}
    /\ pass' = 1
    /\ pc' = "project"
    /\ UNCHANGED <<grammar, idx, desugar, before, lang, result, first>>
    /\ UNCHANGED <<parsevars, inst, producervars>>

\* one iteration that scans the rule of a name again when the name is
\* popped a second time
ProjectStep_rescan ==
    /\ pc = "project"
    /\ Len(queue) > 0
    /\ \E order \in Orders(IF Head(queue) \in DOMAIN lang
                           THEN collect_nonterminals(lang[Head(queue)]) ELSE {}) :
        /\ queue' = Tail(queue) \o
                        SelectSeq(order, LAMBDA x : x \notin reachable \cup {Head(queue)})
        /\ reachable' = reachable \cup ({Head(queue)} \cap DOMAIN lang)
    /\ UNCHANGED <<grammar, pc, idx, desugar, before, lang, start, result, first, pass>>
    /\ UNCHANGED <<parsevars, inst, producervars>>

\* one iteration that takes the alternatives out of the rule it visits
ProjectStep_consuming ==
    /\ pc = "project"
    /\ Len(queue) > 0
    /\ \E order \in Orders(IF Head(queue) \in DOMAIN lang
                           THEN collect_nonterminals(lang[Head(queue)]) ELSE {}) :
        LET st == project_step(lang, [queue |-> queue, reachable |-> reachable], order)
        IN  /\ queue' = st.queue
            /\ reachable' = st.reachable
    /\ lang' = [sym \in DOMAIN lang |-> IF sym = Head(queue) THEN <<>> ELSE lang[sym]]
    /\ UNCHANGED <<grammar, pc, idx, desugar, before, start, result, first, pass>>
    /\ UNCHANGED <<parsevars, inst, producervars>>

\* project lines 20-26: one iteration of the while loop
ProjectStep ==
    /\ pc = "project"
    /\ Len(queue) > 0
    /\ \E order \in Orders(IF Head(queue) \in DOMAIN lang
                           THEN collect_nonterminals(lang[Head(queue)]) ELSE {}) :
        LET st == project_step(lang, [queue |-> queue, reachable |-> reachable], order)
        IN  /\ queue' = st.queue
            /\ reachable' = st.reachable
    /\ UNCHANGED <<grammar, pc, idx, desugar, before, lang, start, result, first, pass>>
    /\ UNCHANGED <<parsevars, inst, producervars>>

\* project line 28: build and return the projected language
ProjectReturn ==
    /\ pc = "project"
    /\ Len(queue) = 0
    /\ result' = project_result(lang, reachable)
    /\ pc' = "projected"
    /\ UNCHANGED <<grammar, idx, desugar, before, lang, start, queue, reachable,
                   first, pass>>
    /\ UNCHANGED <<parsevars, inst, producervars>>

\* the caller projects the projected language again from the same start
ProjectAgain ==
    /\ pc = "projected"
    /\ pass = 1
    /\ first' = result
    /\ lang' = result
    /\ queue' = <<start>>
    /\ reachable' = {}
    /\ pass' = 2
    /\ pc' = "project"
    /\ UNCHANGED <<grammar, idx, desugar, before, start, result>>
    /\ UNCHANGED <<parsevars, inst, producervars>>

Next ==
    \/ Declare
    \/ VisitRule
    \/ Return
    \/ ProjectCall
    \/ ProjectStep
    \/ ProjectReturn
    \/ ProjectAgain

Spec == Init /\ [][Next]_vars

(***************************************************************************)
(* parse(source, grammar_format='regex') on a source without unescaped     *)
(* special characters: RegexParser.grammar applies char('.^$*+?{}[]()|')   *)
(* at the offset for one Lit after the other, and every other parser of    *)
(* the expression grammar fails at the offset where char fails.            *)
(***************************************************************************)
InitParse ==
    /\ grammar = <<>>
    /\ pc = "idle"
    /\ idx = 0
    /\ desugar = NewDesugar({}, Defs, <<>>)
    /\ before = NewDesugar({}, Defs, <<>>)
    /\ lang = EmptyDict
    /\ start = ""
    /\ queue = <<>>
    /\ reachable = {}
    /\ result = EmptyDict
    /\ first = EmptyDict
    /\ pass = 0
    /\ source \in Sources
    /\ offset = 0
    /\ lits = <<>>
    /\ outcome = "parsing"
    /\ value = <<>>
    /\ called = None
    /\ res = Failure(0, "")
    /\ inst = <<>>
    /\ choices = <<>>
    /\ values = <<>>
    /\ index = 0
    /\ out = <<>>

\* char succeeds: one more Lit, the parser moves on
ParseLit ==
    /\ outcome = "parsing"
    /\ LET r == char_parser(RegexSpecial, source, offset)
       IN  /\ r.status = "success"
           /\ lits' = Append(lits, r.value)
           /\ offset' = r.index
           /\ called' = offset
           /\ res' = r
    /\ UNCHANGED <<source, outcome, value, langvars, inst, producervars>>

\* char fails at the end of a source that held at least one character:
\* parser.parse(source) returns the rule 'start' (line 31)
ParseReturn ==
    /\ outcome = "parsing"
    /\ LET r == char_parser(RegexSpecial, source, offset)
       IN  /\ r.status = "failure"
           /\ r.index = offset /\ offset = Len(source) /\ Len(lits) > 0
           /\ called' = offset
           /\ res' = r
    /\ value' = <<Rule("start", IF Len(lits) = 1 THEN Lit(lits[1])
                                ELSE Concat([i \in 1..Len(lits) |-> Lit(lits[i])]))>>
    /\ outcome' = "rules"
    /\ UNCHANGED <<source, offset, lits, langvars, inst, producervars>>

\* char fails anywhere else: ParseError, caught in lines 32-53; the message
\* char gave is the only expected entry that is not bracketed
ParseFailure ==
    /\ outcome = "parsing"
    /\ LET r == char_parser(RegexSpecial, source, offset)
       IN  /\ r.status = "failure"
           /\ ~(r.index = offset /\ offset = Len(source) /\ Len(lits) > 0)
           /\ called' = offset
           /\ res' = r
           /\ value' = InvalidSyntax(r.expected, r.index)
    /\ outcome' = "InvalidSyntax"
    /\ UNCHANGED <<source, offset, lits, langvars, inst, producervars>>

\* chr raises inside char: the exception is no ParseError and leaves parse
ParseRaise ==
    /\ outcome = "parsing"
    /\ LET r == char_parser(RegexSpecial, source, offset)
       IN  /\ r.status = "raise"
           /\ called' = offset
           /\ res' = r
    /\ outcome' = "raised"
    /\ UNCHANGED <<source, offset, lits, value, langvars, inst, producervars>>

NextParse ==
    \/ ParseLit
    \/ ParseReturn
    \/ ParseFailure
    \/ ParseRaise

ParseSpec == InitParse /\ [][NextParse]_vars

(***************************************************************************)
(* Two invocations of analyze_lang in one process, their steps interleaved *)
(* in every order.  Each has its own rules, its own Desugar instance and   *)
(* its own Context with its own Issuer.                                    *)
(***************************************************************************)
Invocations == {1, 2}

\* the grammars the two invocations are given
TwoGrammars ==
    {<<Rule("S", Star(Union(<<Lit("b"), Ref("A")>>)))>>,
     <<Rule("S", Plus(Ref("X"))), Rule("S", Lit("a"))>>,
     <<Rule("A", Lit("a")), Rule("S", Star(Ref("A")))>>,
     <<Rule("S", Optional(Ref("G")))>>,
     <<Rule("start", Star(Lit("a")))>>,
     <<Rule("start", Loop(CharClass("inclusive", <<CharRange("b", "a")>>), 0, 1))>>}

InitTwo ==
    /\ grammar = <<>>
    /\ pc = "idle"
    /\ idx = 0
    /\ desugar = NewDesugar({}, Defs, <<>>)
    /\ before = NewDesugar({}, Defs, <<>>)
    /\ lang = EmptyDict
    /\ start = ""
    /\ queue = <<>>
    /\ reachable = {}
    /\ result = EmptyDict
    /\ first = EmptyDict
    /\ pass = 0
    /\ source = <<>>
    /\ offset = 0
    /\ lits = <<>>
    /\ outcome = "idle"
    /\ value = <<>>
    /\ called = None
    /\ res = Failure(0, "")
    /\ inst \in [Invocations -> {[grammar |-> g, pc |-> "parsed", idx |-> 0,
                                  desugar |-> NewDesugar({}, Defs, <<>>)] :
                                    g \in TwoGrammars}]
    /\ choices = <<>>
    /\ values = <<>>
    /\ index = 0
    /\ out = <<>>

\* analyze_lang lines 26-34 in the invocation i
DeclareAt(i) ==
    /\ inst[i].pc = "parsed"
    /\ LET acc == declare(inst[i].grammar, 1,
                          [nonterminals |-> {},
                           diagnostics |-> inst[i].desugar.diagnostics])
       IN  inst' = [inst EXCEPT
                     ![i].desugar = NewDesugar(acc.nonterminals, @.defs, acc.diagnostics),
                     ![i].idx = 1,
                     ![i].pc = "desugar"]
    /\ UNCHANGED <<langvars, parsevars, producervars>>

\* a visit_rule call of the invocation i that numbers its fresh names from
\* one counter shared by the invocations
VisitRuleAt_shared(i) ==
    /\ inst[i].pc = "desugar"
    /\ inst[i].idx <= Len(inst[i].grammar)
    /\ LET r == inst[i].grammar[inst[i].idx]
           c == IF \A j \in Invocations : inst[j].desugar.fresh_count
                                               <= inst[i].desugar.fresh_count
                THEN inst[i].desugar.fresh_count
                ELSE CHOOSE n \in {inst[j].desugar.fresh_count : j \in Invocations} :
                        \A j \in Invocations : inst[j].desugar.fresh_count <= n
           d == visit_rule(r.name, r.body, <<inst[i].idx>>,
                           [inst[i].desugar EXCEPT !.fresh_count = c])
       IN  inst' = [inst EXCEPT ![i].desugar = d, ![i].idx = @ + 1,
                             ![i].pc = IF d.raised THEN "raised" ELSE @]
    /\ UNCHANGED <<langvars, parsevars, producervars>>

\* analyze_lang lines 35-36 in the invocation i: one visit_rule call
VisitRuleAt(i) ==
    /\ inst[i].pc = "desugar"
    /\ inst[i].idx <= Len(inst[i].grammar)
    /\ LET r == inst[i].grammar[inst[i].idx]
           d == visit_rule(r.name, r.body, <<inst[i].idx>>, inst[i].desugar)
       IN  inst' = [inst EXCEPT ![i].desugar = d, ![i].idx = @ + 1,
                             ![i].pc = IF d.raised THEN "raised" ELSE @]
    /\ UNCHANGED <<langvars, parsevars, producervars>>

\* analyze_lang line 38 in the invocation i
ReturnAt(i) ==
    /\ inst[i].pc = "desugar"
    /\ inst[i].idx > Len(inst[i].grammar)
    /\ inst' = [inst EXCEPT ![i].pc = "returned"]
    /\ UNCHANGED <<langvars, parsevars, producervars>>

NextTwo ==
    \/ \E i \in Invocations : DeclareAt(i)
    \/ \E i \in Invocations : VisitRuleAt(i)
    \/ \E i \in Invocations : ReturnAt(i)

TwoSpec == InitTwo /\ [][NextTwo]_vars

(***************************************************************************)
(* ChoiceProducer (flat/py/runtime.py): a producer and the produce calls   *)
(* made on it.  random.shuffle leaves the list in any order.               *)
(***************************************************************************)
MaxChoices == 3

MaxCalls == 7

\* the values choice lists are made of
ChoiceValues == <<"a", "b", "c", "d", "e">>

\* the orders random.shuffle can leave the list vs in
Shuffle(vs) == Orders({vs[i] : i \in 1..Len(vs)})

\* ChoiceProducer.__init__ on a list of 1..MaxChoices distinct choices
InitProducer ==
    /\ grammar = <<>>
    /\ pc = "idle"
    /\ idx = 0
    /\ desugar = NewDesugar({}, Defs, <<>>)
    /\ before = NewDesugar({}, Defs, <<>>)
    /\ lang = EmptyDict
    /\ start = ""
    /\ queue = <<>>
    /\ reachable = {}
    /\ result = EmptyDict
    /\ first = EmptyDict
    /\ pass = 0
    /\ source = <<>>
    /\ offset = 0
    /\ lits = <<>>
    /\ outcome = "idle"
    /\ value = <<>>
    /\ called = None
    /\ res = Failure(0, "")
    /\ inst = <<>>
    /\ choices \in {SubSeq(ChoiceValues, 1, n) : n \in 1..MaxChoices}
    /\ values \in Shuffle(choices)
    /\ index = 0
    /\ out = <<>>

\* produce shuffling the list at every call
Produce_reshuffling ==
    /\ Len(out) < MaxCalls
    /\ \E vs \in Shuffle(values) :
        LET i == IF index = Len(values) THEN 0 ELSE index
        IN  /\ values' = vs
            /\ index' = i + 1
            /\ out' = Append(out, vs[i + 1])
    /\ UNCHANGED <<choices, langvars, parsevars, inst>>

\* ChoiceProducer.produce
Produce ==
    /\ Len(out) < MaxCalls
    /\ \E vs \in IF index = Len(values) THEN Shuffle(values) ELSE {values} :
        LET i == IF index = Len(values) THEN 0 ELSE index
        IN  /\ values' = vs
            /\ index' = i + 1
            /\ out' = Append(out, vs[i + 1])
    /\ UNCHANGED <<choices, langvars, parsevars, inst>>

NextProducer == Produce

ProducerSpec == InitProducer /\ [][NextProducer]_vars

TypeOK ==
    /\ pc \in {"parsed", "desugar", "raised", "returned", "project", "projected",
             "idle"}
    /\ desugar.fresh_count \in Nat
    /\ reachable \subseteq DOMAIN lang

(***************************************************************************)
(* Properties.                                                             *)
(***************************************************************************)
\* the names referenced by NonTerminal symbols in the rule n of g
RefsOf(g, n) ==
    {m \in UNION {{g[n][i][j].name : j \in 1..Len(g[n][i])} : i \in 1..Len(g[n])} :
        \E i \in 1..Len(g[n]) : \E j \in 1..Len(g[n][i]) : g[n][i][j] = NT(m)}

\* the defined names reached from the names R by chains of references
\* through defined names
RECURSIVE Closure(_, _)
Closure(g, R) ==
    LET R1 == R \cup (UNION {RefsOf(g, n) : n \in R} \cap DOMAIN g)
    IN  IF R1 = R THEN R ELSE Closure(g, R1)

ReachableFrom(g, s) == IF s \in DOMAIN g THEN Closure(g, {s}) ELSE {}

\* some rule of g refers to a name g does not define
HasDangling(g) == \E n \in DOMAIN g : ~(RefsOf(g, n) \subseteq DOMAIN g)

\* some rule of g is on a cycle of references
HasCycle(g) == \E n \in DOMAIN g : \E m \in RefsOf(g, n) \cap DOMAIN g : n \in Closure(g, {m})

\* C1: when project returns, the keys of its result are exactly the names
\* defined in lang that a chain of NonTerminal references through defined
\* names reaches from start, and each key maps to the alternatives it has in
\* lang.
C1_ProjectExactlyReachable ==
    pc = "projected" =>
        /\ DOMAIN result = ReachableFrom(lang, start)
        /\ \A n \in DOMAIN result : result[n] = lang[n]

\* C1 witness: a first projection over a language with a cycle and a dangling
\* reference that keeps at least three rules and drops at least one.
C1_Witness ==
    /\ pc = "projected"
    /\ pass = 1
    /\ HasCycle(lang)
    /\ HasDangling(lang)
    /\ Cardinality(DOMAIN result) >= 3
    /\ DOMAIN result # DOMAIN lang

\* C4: projecting the result of a projection again from the same start
\* returns the same language.
C4_ProjectIdempotent ==
    (pc = "projected" /\ pass = 2) => result = first

\* C4 witness: a second projection has returned, over a first result with a
\* cycle, a dangling reference and at least two rules.
C4_Witness ==
    /\ pc = "projected"
    /\ pass = 2
    /\ HasCycle(first)
    /\ HasDangling(first)
    /\ Cardinality(DOMAIN first) >= 2

\* the deterministic project operator agrees with every run of the loop
ProjectOperatorAgrees ==
    pc = "projected" => result = project(lang, start)

\* the node at the path below the expression e (the source range a
\* diagnostic carries, resolved back to its node)
RECURSIVE NodeAt(_, _)
NodeAt(e, path) ==
    IF Len(path) = 0 THEN e
    ELSE CASE e.tag = "Concat" -> NodeAt(e.elements[Head(path)], Tail(path))
           [] e.tag = "Union" -> NodeAt(e.options[Head(path)], Tail(path))
           [] OTHER -> NodeAt(e.element, Tail(path))

\* the names of the Refs an UndefinedRule diagnostic was issued for
UndefinedNames ==
    {NodeAt(grammar[dg.pos[1]].body, Tail(dg.pos)).name :
        dg \in {desugar.diagnostics[i] : i \in
                  {j \in 1..Len(desugar.diagnostics) :
                      desugar.diagnostics[j].kind = "UndefinedRule"}}}

\* the rule names the input defines
DefinedNames == {grammar[i].name : i \in 1..Len(grammar)}

\* C2: normalization never raises, and the language it returns has an entry
\* for every rule name defined in the input.
C2_NeverRaises ==
    /\ pc # "raised"
    /\ pc = "returned" => DefinedNames \subseteq DOMAIN lang

\* C3: in the returned normal form every NonTerminal names a key of the same
\* normal form, unless it is the name of a Ref an UndefinedRule diagnostic
\* was issued for.
C3_SelfContained ==
    pc = "returned" =>
        \A n \in DOMAIN lang : RefsOf(lang, n) \subseteq DOMAIN lang \cup UndefinedNames

\* visit_rule has just returned normally from the rule idx - 1
Visited == pc = "desugar" /\ idx > 1

\* C5: a rule whose body is Loop(e, {m, n}) with m <= n is stored as
\* reduce(e) m times followed by NonTerminal(fresh), and fresh is stored with
\* the n-m+1 alternatives reduce(e) k times, k = 0..n-m, in that order.
C5_LoopBounded ==
    (/\ Visited
     /\ grammar[idx - 1].body.tag = "Loop"
     /\ grammar[idx - 1].body.upper # None
     /\ grammar[idx - 1].body.lower <= grammar[idx - 1].body.upper) =>
        LET node == grammar[idx - 1].body
            r == visit(node.element, <<idx - 1, 1>>, before)
            f == Fresh(r.d.fresh_count + 1)
        IN  /\ desugar.rules[grammar[idx - 1].name] =
                    <<Times(r.seq, node.lower) \o <<NT(f)>>>>
            /\ f \in DOMAIN desugar.rules
            /\ desugar.rules[f] =
                    [k \in 1..(node.upper - node.lower + 1) |-> Times(r.seq, k - 1)]

\* C6: a rule whose body is Loop(e, {m, n}) with m > n gets exactly one
\* EmptyRange diagnostic at the loop's range, the single empty alternative,
\* and no rule stored for the loop.
C6_LoopEmptyRange ==
    (/\ Visited
     /\ grammar[idx - 1].body.tag = "Loop"
     /\ grammar[idx - 1].body.upper # None
     /\ grammar[idx - 1].body.lower > grammar[idx - 1].body.upper) =>
        LET node == grammar[idx - 1].body
            r == visit(node.element, <<idx - 1, 1>>, before)
        IN  /\ desugar.diagnostics =
                    Append(r.d.diagnostics, Diagnostic("EmptyRange", <<idx - 1, 0>>))
            /\ desugar.rules = Store(r.d.rules, grammar[idx - 1].name, <<<<>>>>)

\* C7: a rule whose body is Star(e) is stored as the single symbol
\* NonTerminal(fresh), and fresh is stored with the two alternatives epsilon
\* and reduce(e) followed by NonTerminal(fresh), in that order.
C7_Star ==
    (Visited /\ grammar[idx - 1].body.tag = "Star") =>
        LET node == grammar[idx - 1].body
            f == Fresh(before.fresh_count + 1)
            r == visit(node.element, <<idx - 1, 1>>, fresh(before))
        IN  /\ desugar.rules[grammar[idx - 1].name] = <<<<NT(f)>>>>
            /\ f \in DOMAIN desugar.rules
            /\ desugar.rules[f] = <<<<>>, r.seq \o <<NT(f)>>>>

\* C7 witness: a* has been desugared to start = [[NT(@1)]] and
\* @1 = [[], ['a', NT(@1)]].
C7_Witness ==
    /\ Visited
    /\ grammar = <<Rule("start", Star(Lit("a")))>>
    /\ desugar.rules["start"] = <<<<NT("@1")>>>>
    /\ desugar.rules["@1"] = <<<<>>, <<T("a"), NT("@1")>>>>

\* C8 as stated: a+ is returned as start = [['a', NT(@1)]] and
\* @1 = [['a'], ['a', NT(@1)]].
C8_PlusAsStated ==
    (pc = "returned" /\ grammar = <<Rule("start", Plus(Lit("a")))>>) =>
        /\ DOMAIN lang = {"start", "@1"}
        /\ lang["start"] = <<<<T("a"), NT("@1")>>>>
        /\ lang["@1"] = <<<<T("a")>>, <<T("a"), NT("@1")>>>>

\* C8 amended: a+ is returned as start = [[NT(@1)]] and
\* @1 = [['a'], ['a', NT(@1)]].
C8_Plus ==
    (pc = "returned" /\ grammar = <<Rule("start", Plus(Lit("a")))>>) =>
        /\ DOMAIN lang = {"start", "@1"}
        /\ lang["start"] = <<<<NT("@1")>>>>
        /\ lang["@1"] = <<<<T("a")>>, <<T("a"), NT("@1")>>>>

\* C8 witness: analyze_lang has returned from the grammar a+.
C8_Witness ==
    /\ pc = "returned"
    /\ grammar = <<Rule("start", Plus(Lit("a")))>>
    /\ ~has_errors(desugar.diagnostics)

\* the characters an item of a class denotes
ItemChars(item) ==
    IF item.kind = "char" THEN {item.c}
    ELSE {Alphabet[i] : i \in {j \in 1..Len(Alphabet) :
            ord(item.lower) <= ord(Alphabet[j]) /\ ord(Alphabet[j]) <= ord(item.upper)}}

ClassChars(items) == UNION {ItemChars(items[i]) : i \in 1..Len(items)}

\* C9: a rule whose body is an inclusive class of at least two characters is
\* stored as NonTerminal(fresh), fresh having exactly one single-character
\* alternative per distinct character; a class of exactly one character is
\* stored as that Terminal and consumes no fresh name.
C9_CharClass ==
    (/\ Visited
     /\ grammar[idx - 1].body.tag = "CharClass"
     /\ grammar[idx - 1].body.mode = "inclusive") =>
        LET D == ClassChars(grammar[idx - 1].body.items)
            f == Fresh(before.fresh_count + 1)
            rs == desugar.rules
            name == grammar[idx - 1].name
        IN  /\ Cardinality(D) >= 2 =>
                /\ rs[name] = <<<<NT(f)>>>>
                /\ f \in DOMAIN rs
                /\ Len(rs[f]) = Cardinality(D)
                /\ {rs[f][i] : i \in 1..Len(rs[f])} = {<<T(c)>> : c \in D}
            /\ Cardinality(D) = 1 =>
                /\ rs[name] \in {<<<<T(c)>>>> : c \in D}
                /\ desugar.fresh_count = before.fresh_count

\* the items of a class that are ranges with lower > upper, in source order
EmptyRanges(items) ==
    SelectSeq([i \in 1..Len(items) |-> i],
              LAMBDA i : items[i].kind = "range"
                            /\ ord(items[i].lower) > ord(items[i].upper))

\* the characters of the terminals a class was reduced to
ReducedChars(rs, name) ==
    IF rs[name][1][1].nt
    THEN {rs[rs[name][1][1].name][i][1].name : i \in 1..Len(rs[rs[name][1][1].name])}
    ELSE {rs[name][1][1].name}

\* C10: visiting an inclusive class issues exactly one EmptyRange per range
\* with lower > upper, at that range, and every other item still contributes
\* its characters.
C10_EmptyCharRange ==
    (/\ Visited
     /\ grammar[idx - 1].body.tag = "CharClass"
     /\ grammar[idx - 1].body.mode = "inclusive") =>
        LET items == grammar[idx - 1].body.items
            bad == EmptyRanges(items)
        IN  /\ desugar.diagnostics = before.diagnostics \o
                    [k \in 1..Len(bad) |-> Diagnostic("EmptyRange", <<idx - 1, bad[k]>>)]
            /\ ReducedChars(desugar.rules, grammar[idx - 1].name) =
                    UNION {ItemChars(items[i]) : i \in
                            {j \in 1..Len(items) : \A k \in 1..Len(bad) : bad[k] # j}}

\* C10 witness: [ad-b] has been reduced to the Terminal 'a' with one
\* EmptyRange diagnostic.
C10_Witness ==
    /\ Visited
    /\ grammar = <<Rule("start",
            CharClass("inclusive", <<CharItem("a"), CharRange("d", "b")>>))>>
    /\ desugar.rules = [n \in {"start"} |-> <<<<T("a")>>>>]
    /\ desugar.diagnostics = <<Diagnostic("EmptyRange", <<1, 2>>)>>

\* the Ref occurrences below the expression e at the path pos, each with its
\* path and its name
RECURSIVE RefsIn(_, _)
RefsIn(e, pos) ==
    CASE e.tag = "Ref" -> {[pos |-> pos, name |-> e.name]}
      [] e.tag = "Concat" ->
            UNION {RefsIn(e.elements[i], Append(pos, i)) : i \in 1..Len(e.elements)}
      [] e.tag = "Union" ->
            UNION {RefsIn(e.options[i], Append(pos, i)) : i \in 1..Len(e.options)}
      [] e.tag \in {"Star", "Plus", "Optional", "Power", "Loop"} ->
            RefsIn(e.element, Append(pos, 1))
      [] OTHER -> {}

\* the Ref occurrences of the input whose name is neither a rule of the
\* input nor a language type of the context
UnresolvedRefs ==
    {r \in UNION {RefsIn(grammar[i].body, <<i>>) : i \in 1..Len(grammar)} :
        /\ r.name \notin DefinedNames
        /\ lookup(Defs, r.name).kind # "LangType"}

\* the indices of the diagnostics of the kind k in the sink
DiagnosticsOf(k) ==
    {j \in 1..Len(desugar.diagnostics) : desugar.diagnostics[j].kind = k}

\* C11: when normalization returns, the UndefinedRule diagnostics are one
\* for each Ref occurrence of the input whose name is neither a local rule
\* nor a language type of the context, at that occurrence, however often
\* Plus, Power or Loop repeat its reduction; and a rule whose body is such a
\* Ref is stored as the single alternative [NonTerminal(name)].
C11_UndefinedRule ==
    /\ pc = "returned" =>
        /\ {desugar.diagnostics[j].pos : j \in DiagnosticsOf("UndefinedRule")}
              = {r.pos : r \in UnresolvedRefs}
        /\ Cardinality(DiagnosticsOf("UndefinedRule")) = Cardinality(UnresolvedRefs)
    /\ (Visited /\ grammar[idx - 1].body.tag = "Ref") =>
        LET node == grammar[idx - 1].body
        IN  (\E r \in UnresolvedRefs : r.name = node.name) =>
                desugar.rules[grammar[idx - 1].name] = <<<<NT(node.name)>>>>

\* an unresolved Ref below a Power was reduced twice and reported once
C11_Witness ==
    /\ pc = "returned"
    /\ Len(grammar) = 1
    /\ grammar[1].body = Power(Ref("X"), 2)
    /\ lang["S"] = <<<<NT("X"), NT("X")>>>>
    /\ Cardinality(DiagnosticsOf("UndefinedRule")) = 1

\* the rules of the input that define the name n, in source order
DefinitionsOf(n) == {i \in 1..Len(grammar) : grammar[i].name = n}

\* C12: once the rule names are declared, a name the input defines k times
\* has exactly k - 1 RedefinedRule diagnostics, one at each definition after
\* the first, and a name defined once has none.
C12_RedefinedRule ==
    pc # "parsed" =>
        /\ \A n \in DefinedNames :
             LET later == DefinitionsOf(n) \ {CHOOSE i \in DefinitionsOf(n) :
                                                \A m \in DefinitionsOf(n) : i <= m}
             IN  {desugar.diagnostics[j].pos : j \in DiagnosticsOf("RedefinedRule")}
                    \cap {<<i, 0>> : i \in DefinitionsOf(n)}
                 = {<<i, 0>> : i \in later}
        /\ Cardinality(DiagnosticsOf("RedefinedRule"))
              = Len(grammar) - Cardinality(DefinedNames)

\* one name defined twice and every other name once: one RedefinedRule
C12_Witness ==
    /\ pc = "returned"
    /\ Len(grammar) = MaxRules
    /\ Cardinality(DefinedNames) = MaxRules - 1
    /\ Cardinality(DiagnosticsOf("RedefinedRule")) = 1

\* the keys visit_Ref splices external rules under
SplicedNames ==
    UNION {{n \o "." \o id : id \in DOMAIN Defs[n].lang} :
              n \in {m \in DOMAIN Defs : Defs[m].kind = "LangType"}}

\* C13: the counter of a Desugar instance starts at 0 and never decreases;
\* the names a visit_rule call issues are '@c+1' .. '@c2' for the counter
\* values c before and c2 after it, all different, none of them a rule name
\* of the input, a spliced name or a key already stored; the call leaves
\* every stored rule other than the rule it defines as it was, and every key
\* it adds is the rule it defines, a spliced name or a name it issued.
C13_FreshNames ==
    [][/\ (pc' = "desugar" /\ idx' = 1) => desugar'.fresh_count = 0
       /\ (pc = "desugar" /\ pc' = "desugar" /\ idx' = idx + 1) =>
            LET c == desugar.fresh_count
                c2 == desugar'.fresh_count
                issued == {Fresh(i) : i \in (c + 1)..c2}
                name == grammar[idx].name
            IN  /\ c2 >= c
                /\ Cardinality(issued) = c2 - c
                /\ issued \cap (DOMAIN desugar.rules \cup DefinedNames
                                    \cup SplicedNames) = {}
                /\ \A k \in DOMAIN desugar.rules :
                        /\ k \in DOMAIN desugar'.rules
                        /\ k # name => desugar'.rules[k] = desugar.rules[k]
                /\ DOMAIN desugar'.rules \ DOMAIN desugar.rules
                        \subseteq issued \cup {name} \cup SplicedNames]_vars

\* a rule named 1 was stored next to the synthesized rules @1 and @2 and
\* the spliced rule G.@1
C13_Witness ==
    /\ Visited
    /\ desugar.fresh_count = 2
    /\ {"1", Fresh(1), Fresh(2), "G.@1"} \subseteq DOMAIN desugar.rules
    /\ desugar.rules["1"] = <<<<NT(Fresh(1))>>>>
    /\ desugar.rules[Fresh(1)] = <<<<>>, <<NT(Fresh(2)), NT(Fresh(1))>>>>

\* C20: for a rule whose body is Plus(e), or a concatenation with a Plus(e)
\* as its last element, the Plus reduces to the single NonTerminal(fresh),
\* fresh is stored with exactly the two alternatives reduce(e) and
\* reduce(e) + [NonTerminal(fresh)] in that order, and the element is
\* reduced once: the counter and the diagnostics are those of one reduction.
C20_PlusTwoAlternatives ==
    Visited =>
        LET body == grammar[idx - 1].body
            name == grammar[idx - 1].name
        IN  /\ body.tag = "Plus" =>
                LET f == Fresh(before.fresh_count + 1)
                    r == visit(body.element, <<idx - 1, 1>>, fresh(before))
                IN  /\ desugar.rules[name] = <<<<NT(f)>>>>
                    /\ desugar.rules[f] = <<r.seq, r.seq \o <<NT(f)>>>>
                    /\ desugar.fresh_count = r.d.fresh_count
                    /\ desugar.diagnostics = r.d.diagnostics
            /\ (body.tag = "Concat" /\ body.elements[Len(body.elements)].tag = "Plus") =>
                LET n == Len(body.elements)
                    h == visit_each(SubSeq(body.elements, 1, n - 1), <<idx - 1>>, 1,
                                    [seqs |-> <<>>, d |-> before])
                    f == Fresh(h.d.fresh_count + 1)
                    r == visit(body.elements[n].element, <<idx - 1, n, 1>>, fresh(h.d))
                IN  /\ desugar.rules[name] = <<Flatten(h.seqs) \o <<NT(f)>>>>
                    /\ desugar.rules[f] = <<r.seq, r.seq \o <<NT(f)>>>>
                    /\ desugar.fresh_count = r.d.fresh_count
                    /\ desugar.diagnostics = r.d.diagnostics

\* ab+ was stored as start = [['a', NT(@1)]], @1 = [['b'], ['b', NT(@1)]]
C20_Witness ==
    /\ Visited
    /\ grammar[1] = Rule("start", Concat(<<Lit("a"), Plus(Lit("b"))>>))
    /\ desugar.rules["start"] = <<<<T("a"), NT(Fresh(1))>>>>
    /\ desugar.rules[Fresh(1)] = <<<<T("b")>>, <<T("b"), NT(Fresh(1))>>>>

\* the kinds of diagnostic the grammar front end issues at the level ERROR
ErrorKinds == {"RedefinedRule", "UndefinedRule", "NoStartRule"}

\* some diagnostic of the sequence diags is of an error kind
HoldsErrorKind(diags) == \E j \in 1..Len(diags) : diags[j].kind \in ErrorKinds

\* C19: every step leaves the diagnostics already in the sink in place, in
\* order, and only appends; has_errors is true exactly when the sink holds a
\* RedefinedRule, UndefinedRule or NoStartRule (EmptyRange is a warning and
\* does not set it), and once true it stays true.
C19_SinkAppendOnly ==
    [][/\ Len(desugar'.diagnostics) >= Len(desugar.diagnostics)
       /\ SubSeq(desugar'.diagnostics, 1, Len(desugar.diagnostics))
             = desugar.diagnostics
       /\ has_errors(desugar.diagnostics) <=> HoldsErrorKind(desugar.diagnostics)
       /\ has_errors(desugar'.diagnostics) <=> HoldsErrorKind(desugar'.diagnostics)
       /\ has_errors(desugar.diagnostics) => has_errors(desugar'.diagnostics)]_vars

\* a grammar whose only diagnostics are empty ranges was normalized and the
\* sink reports no error
C19_Witness ==
    /\ pc = "returned"
    /\ Len(desugar.diagnostics) > 0
    /\ \A j \in 1..Len(desugar.diagnostics) :
            desugar.diagnostics[j].kind = "EmptyRange"
    /\ ~has_errors(desugar.diagnostics)

\* C16: while project runs from a start symbol that is not a key of its
\* argument, no diagnostic is added and no exception leaves it, and the
\* value it returns is the empty grammar.
C16_ProjectMissingStart ==
    [][(pc = "project" /\ start \notin DOMAIN lang) =>
            /\ desugar'.diagnostics = desugar.diagnostics
            /\ pc' \in {"project", "projected"}
            /\ pc' = "projected" => result' = EmptyDict]_vars

\* a language with rules was projected from the name X it does not define
C16_Witness ==
    /\ pc = "projected"
    /\ pass = 1
    /\ start = "X"
    /\ DOMAIN lang # {}
    /\ start \notin DOMAIN lang
    /\ result = EmptyDict

C14_ParseNeverRaises ==
    /\ outcome # "raised"
    /\ outcome = "InvalidSyntax" => value.msg # "" /\ value.index \in 0..Len(source)

\* the number of hex digits the source holds from the offset i on
RECURSIVE HexRun(_, _)
HexRun(src, i) ==
    IF i < Len(src) /\ At(src, i) \in hexdigits THEN 1 + HexRun(src, i + 1) ELSE 0

\* the latest char call was at a backslash followed by x, u or U
HexEscapeCalled ==
    /\ called # None
    /\ called + 1 < Len(source)
    /\ At(source, called) = "\\"
    /\ At(source, called + 1) \in {"x", "u", "U"}

\* the number of hex digits the escape letter c takes
HexCount(c) == CASE c = "x" -> 2 [] c = "u" -> 4 [] c = "U" -> 8

\* C15: a char call at \x, \u or \U followed by at least 2, 4 or 8 hex
\* digits succeeds, consumes the escape with exactly that many digits and
\* yields the character whose code point is their value; with fewer hex
\* digits the parse fails with the message naming the expected count.
C15_HexEscapes ==
    HexEscapeCalled =>
        LET n == HexCount(At(source, called + 1))
        IN  IF HexRun(source, called + 2) >= n
            THEN /\ res.status = "success"
                 /\ res.index = called + 2 + n
                 /\ res.value = int(SubSeq(source, called + 3, called + 2 + n), 16)
            ELSE /\ outcome = "InvalidSyntax"
                 /\ value.msg = "invalid Unicode escape sequence (expected "
                                    \o ToString(n) \o " hex digits)"

C21_TopLevelUnion ==
    Visited =>
        LET body == grammar[idx - 1].body
            name == grammar[idx - 1].name
            pos == <<idx - 1>>
        IN  /\ body.tag = "Union" =>
                LET r == visit_each(body.options, pos, 1, [seqs |-> <<>>, d |-> before])
                IN  /\ Len(desugar.rules[name]) = Len(body.options)
                    /\ \A i \in 1..Len(body.options) :
                            desugar.rules[name][i] = r.seqs[i]
                    /\ desugar.fresh_count = r.d.fresh_count
            /\ body.tag # "Union" =>
                desugar.rules[name] = <<visit(body, pos, before).seq>>
            /\ (body.tag = "Star" /\ body.element.tag = "Union") =>
                LET f == Fresh(before.fresh_count + 2)
                    r == visit_each(body.element.options, <<idx - 1, 1>>, 1,
                                    [seqs |-> <<>>, d |-> fresh(fresh(before))])
                IN  /\ desugar.rules[Fresh(before.fresh_count + 1)]
                            = <<<<>>, <<NT(f), NT(Fresh(before.fresh_count + 1))>>>>
                    /\ desugar.rules[f] = r.seqs
                    /\ Len(desugar.rules[f]) = Len(body.element.options)
            /\ (body.tag = "Concat" /\ body.elements[Len(body.elements)].tag = "Union") =>
                LET n == Len(body.elements)
                    u == body.elements[n]
                    h == visit_each(SubSeq(body.elements, 1, n - 1), pos, 1,
                                    [seqs |-> <<>>, d |-> before])
                    f == Fresh(h.d.fresh_count + 1)
                    r == visit_each(u.options, <<idx - 1, n>>, 1,
                                    [seqs |-> <<>>, d |-> fresh(h.d)])
                IN  /\ desugar.rules[name] = <<Flatten(h.seqs) \o <<NT(f)>>>>
                    /\ desugar.rules[f] = r.seqs
                    /\ Len(desugar.rules[f]) = Len(u.options)

\* a|b|c was stored as three alternatives and no fresh rule
C21_Witness ==
    /\ Visited
    /\ grammar[1] = Rule("start", Union(<<Lit("a"), Lit("b"), Lit("c")>>))
    /\ desugar.rules = [x \in {"start"} |-> <<<<T("a")>>, <<T("b")>>, <<T("c")>>>>]
    /\ desugar.fresh_count = 0

\* the names the context binds to a language type
LangNames == {m \in DOMAIN Defs : Defs[m].kind = "LangType"}

\* the Ref occurrences of the input whose name is a rule of the input
LocalRefs ==
    {r \in UNION {RefsIn(grammar[i].body, <<i>>) : i \in 1..Len(grammar)} :
        r.name \in DefinedNames}

\* C22: a Ref to a rule of the grammar reduces to NonTerminal(name) without
\* a diagnostic and without a new key other than the rule being stored, as a
\* whole body and as an option of a top-level Union; and when normalization
\* returns, no diagnostic sits at a Ref to a local rule and no key
\* '{name}.{id}' exists for a local name the context also binds to a
\* language.
C22_LocalFirst ==
    /\ Visited =>
        LET body == grammar[idx - 1].body
            name == grammar[idx - 1].name
        IN  /\ (body.tag = "Ref" /\ body.name \in DefinedNames) =>
                /\ desugar.rules[name] = <<<<NT(body.name)>>>>
                /\ desugar.diagnostics = before.diagnostics
                /\ DOMAIN desugar.rules = DOMAIN before.rules \cup {name}
            /\ body.tag = "Union" =>
                \A i \in 1..Len(body.options) :
                    (body.options[i].tag = "Ref"
                        /\ body.options[i].name \in DefinedNames) =>
                            desugar.rules[name][i] = <<NT(body.options[i].name)>>
    /\ pc = "returned" =>
        /\ \A j \in 1..Len(desugar.diagnostics) :
                desugar.diagnostics[j].pos \notin {r.pos : r \in LocalRefs}
        /\ \A n \in LangNames \cap DefinedNames :
                {n \o "." \o id : id \in DOMAIN Defs[n].lang} \cap DOMAIN lang = {}

\* a grammar defines the rule G, refers to it, and the context binds G to a
\* language with a start rule: the reference is NT(G) and nothing is spliced
C22_Witness ==
    /\ pc = "returned"
    /\ "G" \in DefinedNames
    /\ \E r \in LocalRefs : r.name = "G"
    /\ "start" \in DOMAIN Defs["G"].lang
    /\ \E i \in 1..Len(lang["G"]) : lang["G"][i] = <<NT("G")>>
    /\ "G.start" \notin DOMAIN lang

\* the Ref occurrences of the input the context resolves to a language
ExternalRefs ==
    {r \in UNION {RefsIn(grammar[i].body, <<i>>) : i \in 1..Len(grammar)} :
        r.name \in LangNames \ DefinedNames}

\* the language type a name is bound to has a start rule
HasStart(n) == "start" \in DOMAIN Defs[n].lang

\* C23: a Ref the context resolves to a language reduces to
\* NonTerminal('{name}.start').  When normalization returns, the keys
\* '{name}.{id}' of the output are exactly those of the rules reachable from
\* 'start' in the external grammar if it has a start rule and is referred
\* to, and none otherwise; no diagnostic sits at a Ref to a grammar with a
\* start rule, and the NoStartRule diagnostics are one for each Ref to a
\* grammar without one, at that Ref.
C23_ExternalSplice ==
    /\ Visited =>
        LET body == grammar[idx - 1].body
            name == grammar[idx - 1].name
            ext(e) == e.tag = "Ref" /\ e.name \in LangNames \ DefinedNames
        IN  /\ ext(body) => desugar.rules[name] = <<<<NT(body.name \o ".start")>>>>
            /\ body.tag = "Union" =>
                \A i \in 1..Len(body.options) :
                    ext(body.options[i]) =>
                        desugar.rules[name][i] = <<NT(body.options[i].name \o ".start")>>
    /\ pc = "returned" =>
        /\ \A n \in LangNames :
                {k \in DOMAIN lang :
                    \E id \in DOMAIN Defs[n].lang : k = n \o "." \o id}
                = IF HasStart(n) /\ \E r \in ExternalRefs : r.name = n
                  THEN {n \o "." \o id : id \in ReachableFrom(Defs[n].lang, "start")}
                  ELSE {}
        /\ {desugar.diagnostics[j].pos : j \in DiagnosticsOf("NoStartRule")}
                = {r.pos : r \in {x \in ExternalRefs : ~HasStart(x.name)}}
        /\ Cardinality(DiagnosticsOf("NoStartRule"))
                = Cardinality({x \in ExternalRefs : ~HasStart(x.name)})
        /\ \A j \in 1..Len(desugar.diagnostics) :
                desugar.diagnostics[j].pos
                    \notin {r.pos : r \in {x \in ExternalRefs : HasStart(x.name)}}

\* a rule referred to G, whose rule U is unreachable from its start: G.start,
\* G.A and G.@1 were spliced, G.U was not, and the sink is empty
C23_Witness ==
    /\ pc = "returned"
    /\ \E r \in ExternalRefs : r.name = "G"
    /\ {"G.start", "G.A", "G.@1"} \subseteq DOMAIN lang
    /\ "G.U" \notin DOMAIN lang
    /\ "U" \in DOMAIN Defs["G"].lang
    /\ Len(desugar.diagnostics) = 0

\* the Desugar instance of the input after the visit_rule calls of its first
\* j rules
AfterRules(j) ==
    LET acc == declare(grammar, 1, [nonterminals |-> {}, diagnostics |-> <<>>])
    IN  desugar_rules(SubSeq(grammar, 1, j), 1,
                      NewDesugar(acc.nonterminals, Defs, acc.diagnostics))

\* the last definition of the name n in source order
LastDefinition(n) ==
    CHOOSE i \in DefinitionsOf(n) : \A m \in DefinitionsOf(n) : m <= i

\* C24: when normalization returns, the entry of every rule name holds the
\* reduction of its last definition in source order, reduced by the
\* instance as the earlier rules left it, and a name defined more than once
\* has a RedefinedRule diagnostic at that last definition.
C24_LastDefinitionWins ==
    pc = "returned" =>
        \A n \in DefinedNames :
            LET last == LastDefinition(n)
                body == grammar[last].body
                d == AfterRules(last - 1)
            IN  /\ lang[n] =
                      IF body.tag = "Union"
                      THEN visit_each(body.options, <<last>>, 1,
                                      [seqs |-> <<>>, d |-> d]).seqs
                      ELSE <<visit(body, <<last>>, d).seq>>
                /\ Cardinality(DefinitionsOf(n)) > 1 =>
                      \E j \in DiagnosticsOf("RedefinedRule") :
                          desugar.diagnostics[j].pos = <<last, 0>>

\* S was defined as a reference and then as the literal a: the entry
\* is the literal, and the redefinition was reported
C24_Witness ==
    /\ pc = "returned"
    /\ Len(grammar) = 2
    /\ grammar[1] = Rule("S", Ref("X"))
    /\ grammar[2] = Rule("S", Lit("a"))
    /\ lang["S"] = <<<<T("a")>>>>
    /\ Cardinality(DiagnosticsOf("RedefinedRule")) = 1

\* C25: every iteration of the projection loop either adds the popped name
\* to the reachable set, when it is a rule not yet in it, or leaves the set
\* as it is and only shortens the queue; the set never shrinks and holds
\* rule names only.  So a name is added, and its body scanned, at most
\* once, and the pair (rules not yet reached, queue length) decreases in
\* every iteration: the loop ends, cycles and dangling names included.
C25_ProjectTerminates ==
    [][(pc = "project" /\ pc' = "project") =>
            /\ reachable \subseteq reachable'
            /\ reachable' \subseteq DOMAIN lang
            /\ \/ /\ Head(queue) \in DOMAIN lang \ reachable
                  /\ reachable' = reachable \cup {Head(queue)}
               \/ /\ reachable' = reachable
                  /\ queue' = Tail(queue)]_vars

\* inside a cycle of rules, the loop pops a name it has already scanned
C25_Witness ==
    /\ pc = "project"
    /\ HasCycle(lang)
    /\ HasDangling(lang)
    /\ Len(queue) > 0
    /\ Head(queue) \in reachable

\* the number of octal digits the source holds from the offset i on
RECURSIVE OctRun(_, _)
OctRun(src, i) ==
    IF i < Len(src) /\ At(src, i) \in octdigits THEN 1 + OctRun(src, i + 1) ELSE 0

\* the latest char call was at a backslash followed by an octal digit
OctalEscapeCalled ==
    /\ called # None
    /\ called + 1 < Len(source)
    /\ At(source, called) = "\\"
    /\ At(source, called + 1) \in octdigits

\* the value of one, two or three octal digits
OctalValue(ds) ==
    CASE Len(ds) = 1 -> digit(ds[1])
      [] Len(ds) = 2 -> 8 * digit(ds[1]) + digit(ds[2])
      [] Len(ds) = 3 -> 64 * digit(ds[1]) + 8 * digit(ds[2]) + digit(ds[3])

\* C26: a char call at a backslash followed by octal digits succeeds,
\* consumes the backslash and the longest run of one to three octal digits,
\* and yields the character whose code point is their octal value, at most
\* 0o777; when a source that starts with a backslash and four octal digits
\* has been parsed, its second character is the fourth digit itself.
C26_OctalEscapes ==
    /\ OctalEscapeCalled =>
        LET run == OctRun(source, called + 1)
            n == IF run > 3 THEN 3 ELSE run
        IN  /\ res.status = "success"
            /\ res.index = called + 1 + n
            /\ res.value = OctalValue(SubSeq(source, called + 2, called + 1 + n))
            /\ res.value <= 511
            /\ offset = called + 1 + n
    /\ (outcome = "rules" /\ At(source, 0) = "\\" /\ OctRun(source, 1) > 3) =>
        /\ Len(lits) >= 2
        /\ lits[1] = OctalValue(SubSeq(source, 2, 4))
        /\ lits[2] = CodePoints[At(source, 4)]

\* \7777 was parsed as chr(0o777) followed by the character 7
C26_Witness ==
    /\ source = <<"\\", "7", "7", "7", "7">>
    /\ outcome = "rules"
    /\ lits = <<511, CodePoints["7"]>>

\* the produce calls have returned only choices, and every completed pass of
\* n calls has returned every choice
PassesComplete ==
    LET n == Len(choices)
    IN  /\ \A i \in 1..Len(out) : \E c \in 1..n : out[i] = choices[c]
        /\ \A k \in 0..MaxCalls :
                (k + 1) * n <= Len(out) =>
                    {out[j] : j \in (k * n + 1)..((k + 1) * n)}
                        = {choices[c] : c \in 1..n}

\* C27: after every produce call on a producer over n distinct choices,
\* every value returned so far is a choice, the calls k*n+1 .. (k+1)*n of
\* every completed pass have returned every choice (n calls, n choices:
\* each exactly once), the index is between 1 and n, and the list was put
\* in a new order only by a call that found a full pass handed out.
C27_ChoiceComplete ==
    [][/\ PassesComplete'
       /\ index' \in 1..Len(choices)
       /\ values' # values => index = Len(values)
       /\ out' = Append(out, values'[index'])]_vars

\* two full passes over three choices were handed out in different orders
C27_Witness ==
    /\ Len(choices) = 3
    /\ Len(out) = 6
    /\ SubSeq(out, 1, 3) # SubSeq(out, 4, 6)
    /\ index = 3

\* the keys of the output that hold rules spliced from the language n
SplicedKeys(n) ==
    {k \in DOMAIN lang : \E id \in DOMAIN Defs[n].lang : k = n \o "." \o id}

\* C28: in the returned normal form, every NonTerminal inside a rule spliced
\* from the external grammar n names a rule spliced from n, '{n}.{ref}'.
C28_SplicedRefs ==
    pc = "returned" =>
        \A n \in LangNames \ DefinedNames :
            \A k \in SplicedKeys(n) :
                RefsOf(lang, k) \subseteq
                    {n \o "." \o id : id \in DOMAIN Defs[n].lang}

\* the synthesized rules of the output
SynthesizedKeys == DOMAIN lang \cap {Fresh(i) : i \in 1..desugar.fresh_count}

\* C29: in the returned normal form every synthesized rule '@k' is reached
\* by NonTerminal references from a rule the input defines.
C29_NoOrphanRules ==
    pc = "returned" =>
        SynthesizedKeys \subseteq Closure(lang, DefinedNames)

\* the length up to which derivable strings are compared
MaxLen == 4

\* the lengths, up to MaxLen, of the strings a sequence of symbols derives
\* when the nonterminal n derives strings of the lengths f[n]; a terminal
\* is one character and a name without a rule derives nothing
RECURSIVE SeqLengths(_, _)
SeqLengths(alt, f) ==
    IF Len(alt) = 0 THEN {0}
    ELSE LET h == IF ~Head(alt).nt THEN {1}
                  ELSE IF Head(alt).name \in DOMAIN f THEN f[Head(alt).name] ELSE {}
         IN  {a + b : a \in h, b \in SeqLengths(Tail(alt), f)} \cap 0..MaxLen

\* the least fixed point of one derivation step over the rules of g
RECURSIVE DerivedLengths(_, _)
DerivedLengths(g, f) ==
    LET f1 == [n \in DOMAIN g |->
                 UNION {SeqLengths(g[n][i], f) : i \in 1..Len(g[n])}]
    IN  IF f1 = f THEN f ELSE DerivedLengths(g, f1)

\* the lengths up to MaxLen of the strings derivable from the rule s of g
Language(g, s) == DerivedLengths(g, [n \in DOMAIN g |-> {}])[s]

\* the numbers of repetitions, up to MaxLen, a repetition operator allows
Repetitions(e) ==
    CASE e.tag = "Star" -> 0..MaxLen
      [] e.tag = "Plus" -> 1..MaxLen
      [] e.tag = "Optional" -> {0, 1}
      [] e.tag = "Power" -> {e.times}
      [] e.tag = "Loop" /\ e.upper = None -> e.lower..MaxLen
      [] e.tag = "Loop" /\ e.upper # None -> e.lower..e.upper

\* the input is one repetition operator over the literal a, a Loop with
\* lower <= upper when it has an upper bound
RepetitionOfLit ==
    /\ Len(grammar) = 1
    /\ grammar[1].name = "start"
    /\ grammar[1].body \in Postfix(Lit("a"))
    /\ (grammar[1].body.tag = "Loop" /\ grammar[1].body.upper # None) =>
            grammar[1].body.lower <= grammar[1].body.upper

\* C30: for a repetition operator over the literal a, the strings derivable
\* from start in the returned normal form, up to the length MaxLen, are the
\* strings a^k for exactly the numbers k of repetitions the operator allows.
C30_LanguagePreserved ==
    (pc = "returned" /\ RepetitionOfLit) =>
        Language(lang, "start") = Repetitions(grammar[1].body)
====
